---- MODULE Spec2Model ----
(***************************************************************************)
(* Model of tools/agent-coordination/dependency-checker.py: the            *)
(* DependencyValidator (provider map, unresolved interfaces, cycle search, *)
(* interface ownership), the CompatibilityChecker (interface diff), the    *)
(* ComponentAnalyzer (discovery, interface analysis) and main(); and of    *)
(* the AlertManager of tools/monitoring/infrastructure-monitor.py.         *)
(*                                                                         *)
(* Strings that the code inspects (interface and file names) are sequences *)
(* of tokens, so that a substring test, a join or a stem is computed.      *)
(***************************************************************************)
EXTENDS Integers, Sequences, FiniteSets, TLC

VARIABLES
    components,        \* main: the component list handed to the validator
    issues,            \* DependencyValidator.issues, the list the validator returns
    dependency_graph,  \* check_circular_dependencies: the graph it built
    dfs_entered,       \* the nodes has_cycle added to visited, in that order
    vpc,               \* where the validator run stands
    previous,          \* compare_interfaces: descriptor of the base revision
    current,           \* compare_interfaces: descriptor of the working tree
    breaking_changes,  \* compare_interfaces: the returned list
    cpc,               \* where the comparison stands
    git_diff,          \* check_interface_changes: how `git diff --name-only` ended
    changed_files,     \* the header paths it printed
    worktree,          \* path -> the file in the working tree
    history,           \* path -> what `git show base:path` gives
    change_issues,     \* the list check_interface_changes returns
    dpc,               \* where the change check stands
    project_files,     \* main: path -> the file under project_root
    check_changes,     \* main: args.check_changes
    report,            \* main: the reports written to the output, none before
    exit_status,       \* main: the argument of sys.exit, "none" before
    mpc,               \* where main() stands
    artifacts,         \* the header files handed to parse_header_file, in order
    descriptors,       \* the descriptors parse_header_file returned for them
    alerts,            \* AlertManager.alerts: the AlertConfig list, last_alert_time included
    active_alerts,     \* AlertManager.active_alerts: metric name -> position of the alert
    notifications,     \* position of an alert -> the notifications sent for it
    previous_alert_time, \* position of an alert -> its last_alert_time before the latest trigger
    utcnow,            \* the clock datetime.utcnow() reads
    last_check,        \* the arguments and the time of the latest check_metric call
    returned_before    \* a caller of the validator: the list an earlier call returned

vvars == <<components, issues, dependency_graph, dfs_entered, vpc>>
cvars == <<previous, current, breaking_changes, cpc>>
dvars == <<git_diff, changed_files, worktree, history, change_issues, dpc>>
mvars == <<project_files, check_changes, report, exit_status, mpc>>
pvars == <<artifacts, descriptors>>
avars == <<alerts, active_alerts, notifications, previous_alert_time, utcnow, last_check>>
vars == <<components, issues, dependency_graph, dfs_entered, vpc,
          previous, current, breaking_changes, cpc,
          git_diff, changed_files, worktree, history, change_issues, dpc,
          project_files, check_changes, report, exit_status, mpc,
          artifacts, descriptors,
          alerts, active_alerts, notifications, previous_alert_time, utcnow, last_check,
          returned_before>>

(***************************************************************************)
(* Bounds and universes                                                     *)
(***************************************************************************)
\* most entries of interfaces_provided and interfaces_required together, per component
MaxInterfacesPerComponent == 2
\* most such entries in one component list
MaxInterfaceEntries == 6
\* most entries of the functions, structures or constants list of one descriptor
MaxSymbols == 2
\* most declarations in one header file of a change check
MaxDeclarations == 2
\* most required interfaces of a component in the runs checked for termination
MaxRequiredLive == 1

\* f"{agent_type}-component" for agent types of the ownership table
ComponentNames ==
    {"kernel-architect-component", "memory-manager-component",
     "process-scheduler-component"}

\* header file names, tokenised
memory_interface_h == <<"memory", "_", "interface", ".h">>
vfs_filesystem_interface_h == <<"vfs", "_", "filesystem", "_", "interface", ".h">>
syscall_interface_h == <<"syscall", "_", "interface", ".h">>

InterfaceNames == {memory_interface_h, vfs_filesystem_interface_h, syscall_interface_h}

(***************************************************************************)
(* Helpers                                                                  *)
(***************************************************************************)
Range(s) == {s[i] : i \in 1..Len(s)}

\* duplicate-free sequences over S of length at most n: what list(set(...)) can return
SeqsNoDup(S, n) ==
    {s \in UNION {[1..k -> S] : k \in 0..n} :
        \A i, j \in 1..Len(s) : i # j => s[i] # s[j]}

\* all enumerations of a finite set: the orders in which a set can be iterated
Enumerations(S) == {s \in [1..Cardinality(S) -> S] : Range(s) = S}

\* `needle in haystack` on strings
Contains(haystack, needle) ==
    \E i \in 0..(Len(haystack) - Len(needle)) :
        SubSeq(haystack, i + 1, i + Len(needle)) = needle

\* ", ".join(names)
RECURSIVE Join(_)
Join(names) ==
    IF names = <<>> THEN <<>>
    ELSE IF Len(names) = 1 THEN <<names[1]>>
    ELSE <<names[1], ", ">> \o Join(Tail(names))

\* total length of the lists of a sequence
RECURSIVE SumLen(_)
SumLen(lists) == IF lists = <<>> THEN 0 ELSE Len(Head(lists)) + SumLen(Tail(lists))

\* position of the first element of s equal to x, 0 if none
RECURSIVE IndexOf(_, _)
IndexOf(s, x) ==
    IF s = <<>> THEN 0
    ELSE IF Head(s) = x THEN 1
    ELSE LET r == IndexOf(Tail(s), x) IN IF r = 0 THEN 0 ELSE r + 1

(***************************************************************************)
(* Data                                                                     *)
(***************************************************************************)
\* AgentComponent, the fields the validator reads
AgentComponent(name, provided, required) ==
    [name |-> name, interfaces_provided |-> provided, interfaces_required |-> required]

NoFilePath == <<>>

\* DependencyIssue; message is kept as its template kind and its arguments
DependencyIssue(severity, component, interface, message, file_path) ==
    [severity |-> severity, component |-> component, interface |-> interface,
     message |-> message, file_path |-> file_path]

InterfaceLists ==
    {pr \in SeqsNoDup(InterfaceNames, MaxInterfacesPerComponent)
             \X SeqsNoDup(InterfaceNames, MaxInterfacesPerComponent) :
        Len(pr[1]) + Len(pr[2]) <= MaxInterfacesPerComponent}

NameLists == SeqsNoDup(ComponentNames, Cardinality(ComponentNames))

(***************************************************************************)
(* DependencyValidator                                                      *)
(***************************************************************************)
\* AddProvider with the component put in front of the provider list
AddProvider_Prepend(interface_providers, interface, name) ==
    LET k == IndexOf([i \in 1..Len(interface_providers) |->
                        interface_providers[i].interface], interface)
    IN IF k = 0
       THEN Append(interface_providers,
                   [interface |-> interface, providers |-> <<name>>])
       ELSE [interface_providers EXCEPT ![k].providers = <<name>> \o @]

\* interface_providers after one more provided interface of one component;
\* the dict is a sequence of [interface, providers] in insertion order
AddProvider(interface_providers, interface, name) ==
    LET k == IndexOf([i \in 1..Len(interface_providers) |->
                        interface_providers[i].interface], interface)
    IN IF k = 0
       THEN Append(interface_providers,
                   [interface |-> interface, providers |-> <<name>>])
       ELSE [interface_providers EXCEPT ![k].providers = Append(@, name)]

RECURSIVE AddProvided(_, _, _)
AddProvided(interface_providers, provided, name) ==
    IF provided = <<>> THEN interface_providers
    ELSE AddProvided(AddProvider(interface_providers, Head(provided), name),
                     Tail(provided), name)

\* the provider map of validate_interface_compatibility
RECURSIVE BuildProviders(_, _)
BuildProviders(interface_providers, comps) ==
    IF comps = <<>> THEN interface_providers
    ELSE BuildProviders(
            AddProvided(interface_providers, Head(comps).interfaces_provided,
                        Head(comps).name),
            Tail(comps))

\* InterfaceProviders with the loop left after its first component
InterfaceProviders_FirstComponentOnly(comps) ==
    BuildProviders(<<>>, IF comps = <<>> THEN <<>> ELSE <<Head(comps)>>)

InterfaceProviders(comps) == BuildProviders(<<>>, comps)

ProvidedKeys(interface_providers) ==
    {interface_providers[i].interface : i \in 1..Len(interface_providers)}

\* MissingOf with the loop left at the first missing interface
MissingOf_StopAtFirst(name, required, interface_providers) ==
    LET missing == SelectSeq(required,
                      LAMBDA r : r \notin ProvidedKeys(interface_providers))
    IN IF missing = <<>> THEN <<>>
       ELSE <<DependencyIssue("error", <<name>>, Head(missing),
                 [kind |-> "not_provided", subject |-> Head(missing)],
                 NoFilePath)>>

\* the issues of one component's required interfaces that nobody provides
RECURSIVE MissingOf(_, _, _)
MissingOf(name, required, interface_providers) ==
    IF required = <<>> THEN <<>>
    ELSE (IF Head(required) \notin ProvidedKeys(interface_providers)
          THEN <<DependencyIssue("error", <<name>>, Head(required),
                    [kind |-> "not_provided", subject |-> Head(required)],
                    NoFilePath)>>
          ELSE <<>>)
         \o MissingOf(name, Tail(required), interface_providers)

\* the "Check for missing interfaces" loop
RECURSIVE MissingInterfaces(_, _)
MissingInterfaces(comps, interface_providers) ==
    IF comps = <<>> THEN <<>>
    ELSE MissingOf(Head(comps).name, Head(comps).interfaces_required, interface_providers)
         \o MissingInterfaces(Tail(comps), interface_providers)

\* DependencyGraph without the `other_component.name != component.name` test
DependencyGraph_WithSelf(comps) ==
    [n \in {comps[i].name : i \in 1..Len(comps)} |->
        {comps[j].name : j \in
            {j \in 1..Len(comps) :
                \E i \in 1..Len(comps) :
                    /\ comps[i].name = n
                    /\ \E r \in Range(comps[i].interfaces_required) :
                          r \in Range(comps[j].interfaces_provided)}}]

\* dependency_graph: component name -> set of names of other components that
\* provide an interface it requires
DependencyGraph(comps) ==
    [n \in {comps[i].name : i \in 1..Len(comps)} |->
        {comps[j].name : j \in
            {j \in 1..Len(comps) :
                \E i \in 1..Len(comps) :
                    /\ comps[i].name = n
                    /\ comps[j].name # comps[i].name
                    /\ \E r \in Range(comps[i].interfaces_required) :
                          r \in Range(comps[j].interfaces_provided)}}]

\* keys of dependency_graph in insertion order
GraphKeys(comps) == [i \in 1..Len(comps) |-> comps[i].name]

\* the orders in which each node's neighbour set can be iterated: one enumeration
\* of graph[n] for every node n among nodes
RECURSIVE OrdersOver(_, _)
OrdersOver(nodes, graph) ==
    IF nodes = {} THEN {<<>>}
    ELSE LET n == CHOOSE m \in nodes : TRUE
         IN {(n :> e) @@ rest :
                e \in Enumerations(graph[n]),
                rest \in OrdersOver(nodes \ {n}, graph)}

NeighbourOrders(graph) == OrdersOver(DOMAIN graph, graph)

RECURSIVE has_cycle(_, _, _), has_cycle_neighbours(_, _, _)
\* has_cycle without the `node in visited` test
has_cycle_NoVisitedTest(node, d, ord) ==
    IF node \in d.rec_stack THEN [d EXCEPT !.ret = TRUE]
    ELSE LET entered == [visited |-> d.visited \cup {node},
                         rec_stack |-> d.rec_stack \cup {node},
                         entered |-> Append(d.entered, node),
                         ret |-> FALSE]
             after == has_cycle_neighbours(ord[node], entered, ord)
         IN IF after.ret THEN after
            ELSE [after EXCEPT !.rec_stack = @ \ {node}, !.ret = FALSE]

\* has_cycle without the rec_stack test
has_cycle_NoRecStackTest(node, d, ord) ==
    IF node \in d.visited THEN [d EXCEPT !.ret = FALSE]
    ELSE LET entered == [visited |-> d.visited \cup {node},
                         rec_stack |-> d.rec_stack \cup {node},
                         entered |-> Append(d.entered, node),
                         ret |-> FALSE]
             after == has_cycle_neighbours(ord[node], entered, ord)
         IN IF after.ret THEN after
            ELSE [after EXCEPT !.rec_stack = @ \ {node}, !.ret = FALSE]

\* has_cycle(node) with the closure's visited and rec_stack carried in d;
\* ord[node] is the order in which the neighbours of node are iterated
has_cycle(node, d, ord) ==
    IF node \in d.rec_stack THEN [d EXCEPT !.ret = TRUE]
    ELSE IF node \in d.visited THEN [d EXCEPT !.ret = FALSE]
    ELSE LET entered == [visited |-> d.visited \cup {node},
                         rec_stack |-> d.rec_stack \cup {node},
                         entered |-> Append(d.entered, node),
                         ret |-> FALSE]
             after == has_cycle_neighbours(ord[node], entered, ord)
         IN IF after.ret THEN after
            ELSE [after EXCEPT !.rec_stack = @ \ {node}, !.ret = FALSE]

\* the loop over the neighbours of a node; the state a call returns is bound
\* once (r) before the next neighbour is looked at
has_cycle_neighbours(neighbours, d, ord) ==
    IF neighbours = <<>> THEN [d EXCEPT !.ret = FALSE]
    ELSE CHOOSE after \in
            {IF r.ret THEN r ELSE has_cycle_neighbours(Tail(neighbours), r, ord) :
                r \in {has_cycle(Head(neighbours), d, ord)}} : TRUE

\* CycleLoop without the `not in visited` test
RECURSIVE CycleLoop_NoVisitedTest(_, _, _)
CycleLoop_NoVisitedTest(keys, d, ord) ==
    IF keys = <<>> THEN <<>>
    ELSE LET r == has_cycle(Head(keys), d, ord)
         IN (IF r.ret
             THEN <<DependencyIssue("error", <<Head(keys)>>, <<>>,
                        [kind |-> "circular", subject |-> <<Head(keys)>>],
                        NoFilePath)>>
             ELSE <<>>)
            \o CycleLoop_NoVisitedTest(Tail(keys), r, ord)

\* the loop over dependency_graph of check_circular_dependencies
RECURSIVE CycleLoop(_, _, _)
CycleLoop(keys, d, ord) ==
    IF keys = <<>> THEN <<>>
    ELSE IF Head(keys) \in d.visited THEN CycleLoop(Tail(keys), d, ord)
    ELSE LET r == has_cycle(Head(keys), d, ord)
         IN (IF r.ret
             THEN <<DependencyIssue("error", <<Head(keys)>>, <<>>,
                        [kind |-> "circular", subject |-> <<Head(keys)>>],
                        NoFilePath)>>
             ELSE <<>>)
            \o CycleLoop(Tail(keys), r, ord)

\* visited and rec_stack when check_circular_dependencies starts
NoneVisited == [visited |-> {}, rec_stack |-> {}, entered |-> <<>>, ret |-> FALSE]

check_circular_dependencies(comps, ord) == CycleLoop(GraphKeys(comps), NoneVisited, ord)

\* visited and rec_stack once the loop over dependency_graph is through
RECURSIVE SearchState(_, _, _)
SearchState(keys, d, ord) ==
    IF keys = <<>> THEN d
    ELSE IF Head(keys) \in d.visited THEN SearchState(Tail(keys), d, ord)
    ELSE CHOOSE after \in
            {SearchState(Tail(keys), r, ord) : r \in {has_cycle(Head(keys), d, ord)}} : TRUE

critical_markers ==
    {<<"memory", "_", "interface">>, <<"process", "_", "interface">>,
     <<"filesystem", "_", "interface">>}

\* OwnershipSeverity with startswith in place of `in`
OwnershipSeverity_StartsWith(interface) ==
    IF \E critical \in critical_markers :
          /\ Len(critical) <= Len(interface)
          /\ SubSeq(interface, 1, Len(critical)) = critical
    THEN "error" ELSE "warning"

\* OwnershipSeverity that grades a shared non-critical interface as info
OwnershipSeverity_Info(interface) ==
    IF \E critical \in critical_markers : Contains(interface, critical)
    THEN "error" ELSE "info"

\* severity of an interface with several providers
OwnershipSeverity(interface) ==
    IF \E critical \in critical_markers : Contains(interface, critical)
    THEN "error" ELSE "warning"

RECURSIVE check_interface_ownership(_)
check_interface_ownership(interface_providers) ==
    IF interface_providers = <<>> THEN <<>>
    ELSE LET e == Head(interface_providers)
         IN (IF Len(e.providers) > 1
             THEN <<DependencyIssue(OwnershipSeverity(e.interface),
                        Join(e.providers), e.interface,
                        [kind |-> "multiple_providers",
                         subject |-> e.interface \o <<": ">> \o Join(e.providers)],
                        NoFilePath)>>
             ELSE <<>>)
            \o check_interface_ownership(Tail(interface_providers))

\* the list validate_interface_compatibility returns
validate_interface_compatibility(comps, ord) ==
    LET interface_providers == InterfaceProviders(comps)
    IN MissingInterfaces(comps, interface_providers)
       \o check_circular_dependencies(comps, ord)
       \o check_interface_ownership(interface_providers)

(***************************************************************************)
(* Validator run: main() hands a component list to a fresh validator        *)
(***************************************************************************)
\* component lists main() can hand to the validator: names are the distinct keys of
\* agent_components, both interface lists went through list(set(...))
\* no caller that holds an earlier list of the validator
ReuseIdle == returned_before = <<>>

\* no AlertManager at work
AlertsIdle ==
    /\ alerts = <<>>
    /\ active_alerts = <<>>
    /\ notifications = <<>>
    /\ previous_alert_time = <<>>
    /\ utcnow = 0
    /\ last_check = <<>>

ParserIdle ==
    /\ artifacts = <<>>
    /\ descriptors = <<>>

MainIdle ==
    /\ project_files = <<>>
    /\ check_changes = FALSE
    /\ report = <<>>
    /\ exit_status = "none"
    /\ mpc = "idle"

CompareIdle ==
    /\ previous = <<>>
    /\ current = <<>>
    /\ breaking_changes = <<>>
    /\ cpc = "idle"

ChangesIdle ==
    /\ git_diff = "idle"
    /\ changed_files = <<>>
    /\ worktree = <<>>
    /\ history = <<>>
    /\ change_issues = <<>>
    /\ dpc = "idle"

InitValidator ==
    /\ ReuseIdle
    /\ AlertsIdle
    /\ ParserIdle
    /\ CompareIdle
    /\ ChangesIdle
    /\ MainIdle
    /\ \E ns \in NameLists :
          \E f \in [1..Len(ns) -> InterfaceLists] :
             /\ SumLen([i \in 1..Len(ns) |-> f[i][1] \o f[i][2]]) <= MaxInterfaceEntries
             /\ components = [i \in 1..Len(ns) |-> AgentComponent(ns[i], f[i][1], f[i][2])]
    /\ issues = <<>>
    /\ dependency_graph = <<>>
    /\ dfs_entered = <<>>
    /\ vpc = "discovered"

\* a validator that raises when it finds a cycle
Validate_RaisesOnCycle ==
    /\ vpc = "discovered"
    /\ \E ord \in NeighbourOrders(DependencyGraph(components)) :
          /\ check_circular_dependencies(components, ord) = <<>>
          /\ issues' = validate_interface_compatibility(components, ord)
          /\ dfs_entered' = SearchState(GraphKeys(components), NoneVisited, ord).entered
    /\ dependency_graph' = DependencyGraph(components)
    /\ vpc' = "validated"
    /\ UNCHANGED <<returned_before, avars, pvars, components, cvars, dvars, mvars>>

\* issues = validator.validate_interface_compatibility(components)
Validate ==
    /\ vpc = "discovered"
    /\ \E ord \in NeighbourOrders(DependencyGraph(components)) :
          /\ issues' = validate_interface_compatibility(components, ord)
          /\ dfs_entered' = SearchState(GraphKeys(components), NoneVisited, ord).entered
    /\ dependency_graph' = DependencyGraph(components)
    /\ vpc' = "validated"
    /\ UNCHANGED <<returned_before, avars, pvars, components, cvars, dvars, mvars>>

NextValidator == Validate

SpecValidator == InitValidator /\ [][NextValidator]_vars

\* the header each agent of ComponentNames keeps in a directory it owns; the
\* memory manager shares the one of the kernel architect
OwnInterface(name) ==
    IF name = "process-scheduler-component" THEN syscall_interface_h
    ELSE memory_interface_h

\* analysed components that provide their own header or nothing
OwnInterfaceLists(name) ==
    {pr \in InterfaceLists : pr[1] \in {<<>>, <<OwnInterface(name)>>}}

\* a validator run on such components: every call returns
InitValidatorLive ==
    /\ ReuseIdle
    /\ AlertsIdle
    /\ ParserIdle
    /\ CompareIdle
    /\ ChangesIdle
    /\ MainIdle
    /\ \E ns \in NameLists :
          \E f \in [1..Len(ns) -> InterfaceLists] :
             /\ \A i \in 1..Len(ns) :
                   /\ f[i] \in OwnInterfaceLists(ns[i])
                   /\ Len(f[i][2]) <= MaxRequiredLive
             /\ components = [i \in 1..Len(ns) |-> AgentComponent(ns[i], f[i][1], f[i][2])]
    /\ issues = <<>>
    /\ dependency_graph = <<>>
    /\ dfs_entered = <<>>
    /\ vpc = "discovered"

SpecValidatorLive == InitValidatorLive /\ [][NextValidator]_vars /\ WF_vars(Validate)

(***************************************************************************)
(* A caller that calls one DependencyValidator several times                *)
(***************************************************************************)
\* validate_interface_compatibility that goes on with the list self.issues holds
validate_on_instance_KeepsIssues(self_issues, comps, ord) ==
    self_issues \o validate_interface_compatibility(comps, ord)

\* validator.validate_interface_compatibility(components) on a validator whose
\* issues attribute holds self_issues: `self.issues = []` comes first
validate_on_instance(self_issues, comps, ord) ==
    LET reset == <<>>
    IN reset \o validate_interface_compatibility(comps, ord)

\* an issue a caller appends to the list it was given, as main() does with
\* issues.extend(change_issues)
AppendedIssue ==
    DependencyIssue("error", <<"include">>, memory_interface_h,
        [kind |-> "appended", subject |-> <<"kmalloc">>], NoFilePath)

\* the component lists of a later call: the list of the call before without
\* one of its components, or no component at all
LaterLists(comps) ==
    {<<>>} \cup {SubSeq(comps, 1, k - 1) \o SubSeq(comps, k + 1, Len(comps)) :
                    k \in 1..Len(comps)}

InitReuse == InitValidatorLive

\* issues = validator.validate_interface_compatibility(components)
ValidateOnInstance ==
    /\ vpc \in {"discovered", "called_again"}
    /\ \E ord \in NeighbourOrders(DependencyGraph(components)) :
          /\ issues' = validate_on_instance(issues, components, ord)
          /\ dfs_entered' = SearchState(GraphKeys(components), NoneVisited, ord).entered
    /\ dependency_graph' = DependencyGraph(components)
    /\ vpc' = IF vpc = "discovered" THEN "validated" ELSE "revalidated"
    /\ UNCHANGED <<returned_before, avars, pvars, components, cvars, dvars, mvars>>

\* the caller appends to the list it was given, which is the list the
\* validator holds in self.issues
CallerExtends ==
    /\ vpc \in {"validated", "revalidated"}
    /\ issues' = Append(issues, AppendedIssue)
    /\ vpc' = "extended"
    /\ UNCHANGED <<returned_before, avars, pvars, components, dependency_graph,
                   dfs_entered, cvars, dvars, mvars>>

\* the caller keeps the list it has and turns to the same validator with
\* another component list
NextCall ==
    /\ vpc \in {"validated", "revalidated", "extended"}
    /\ \E later \in LaterLists(components) : components' = later
    /\ returned_before' = issues
    /\ vpc' = "called_again"
    /\ UNCHANGED <<avars, pvars, issues, dependency_graph, dfs_entered,
                   cvars, dvars, mvars>>

NextReuse == ValidateOnInstance \/ CallerExtends \/ NextCall

SpecReuse == InitReuse /\ [][NextReuse]_vars

(***************************************************************************)
(* CompatibilityChecker.compare_interfaces                                  *)
(***************************************************************************)
FunctionNames == {"kmalloc", "kfree"}
StructureNames == {"page_t"}
ConstantNames == {"PAGE_SIZE"}

\* sequences over S of length at most n, repetitions allowed: a list filled by
\* one append per regex match
SeqsUpTo(S, n) == UNION {[1..k -> S] : k \in 0..n}

\* InterfaceDefinition
InterfaceDefinition(name, file_path, functions, structures, constants, dependencies) ==
    [name |-> name, file_path |-> file_path, functions |-> functions,
     structures |-> structures, constants |-> constants,
     version |-> "1.0.0", dependencies |-> dependencies]

\* the stem of the NamedTemporaryFile the base revision is written to
temp_stem == <<"tmp">>
temp_path == <<<<"tmp">>, temp_stem \o <<".h">>>>

\* the breaking changes of one kind, in the order the set of removed names is iterated
RemovedMessages(kind, names) == [i \in 1..Len(names) |-> [kind |-> kind, subject |-> <<names[i]>>]]

\* compare_interfaces with every list in place of its set
compare_interfaces_NoSets(prev, cur) ==
    LET kept(list, other) == SelectSeq(list, LAMBDA x : x \notin Range(other))
    IN {RemovedMessages("function_removed", kept(prev.functions, cur.functions))
        \o RemovedMessages("structure_removed", kept(prev.structures, cur.structures))
        \o RemovedMessages("constant_removed", kept(prev.constants, cur.constants))}

\* compare_interfaces that flags every difference, added symbols too
compare_interfaces_BothWays(prev, cur) ==
    LET diff(a, b) == (Range(a) \ Range(b)) \cup (Range(b) \ Range(a))
    IN {RemovedMessages("function_removed", f)
        \o RemovedMessages("structure_removed", st)
        \o RemovedMessages("constant_removed", c) :
            f \in Enumerations(diff(prev.functions, cur.functions)),
            st \in Enumerations(diff(prev.structures, cur.structures)),
            c \in Enumerations(diff(prev.constants, cur.constants))}

\* the lists compare_interfaces can return: removed functions, then removed
\* structures, then removed constants, each set iterated in some order
compare_interfaces(prev, cur) ==
    {RemovedMessages("function_removed", f)
     \o RemovedMessages("structure_removed", st)
     \o RemovedMessages("constant_removed", c) :
        f \in Enumerations(Range(prev.functions) \ Range(cur.functions)),
        st \in Enumerations(Range(prev.structures) \ Range(cur.structures)),
        c \in Enumerations(Range(prev.constants) \ Range(cur.constants))}

ValidatorIdle ==
    /\ components = <<>>
    /\ issues = <<>>
    /\ dependency_graph = <<>>
    /\ dfs_entered = <<>>
    /\ vpc = "idle"

\* two descriptors as parse_header_file returns them: the base revision parsed
\* from the temporary file, the current one from the working tree
InitCompare ==
    /\ ReuseIdle
    /\ AlertsIdle
    /\ ParserIdle
    /\ ValidatorIdle
    /\ ChangesIdle
    /\ MainIdle
    /\ \E pf, cf \in SeqsUpTo(FunctionNames, MaxSymbols),
          ps, cs \in SeqsUpTo(StructureNames, MaxSymbols),
          pc, cc \in SeqsUpTo(ConstantNames, MaxSymbols) :
          /\ previous = InterfaceDefinition(temp_stem, temp_path, pf, ps, pc, <<>>)
          /\ current = InterfaceDefinition(<<"memory", "_", "interface">>,
                          <<<<"kernel">>, <<"include">>, memory_interface_h>>, cf, cs, cc, <<>>)
    /\ breaking_changes = <<>>
    /\ cpc = "parsed"

Compare ==
    /\ cpc = "parsed"
    /\ breaking_changes' \in compare_interfaces(previous, current)
    /\ cpc' = "compared"
    /\ UNCHANGED <<returned_before, avars, pvars, previous, current, vvars, dvars, mvars>>

NextCompare == Compare

SpecCompare == InitCompare /\ [][NextCompare]_vars

(***************************************************************************)
(* InterfaceParser.parse_header_file                                        *)
(*                                                                          *)
(* A path is its sequence of segments, each a tokenised name.  The content  *)
(* of a file is the sequence of the declarations the four patterns match,   *)
(* in file order.                                                           *)
(***************************************************************************)
FileName(path) == path[Len(path)]

\* Path(p).stem: the file name without its last suffix
Stem(name) ==
    IF Len(name) > 1 /\ name[Len(name)] \in {".h", ".c"}
    THEN SubSeq(name, 1, Len(name) - 1)
    ELSE name

\* Path(p).parent.name: the last directory, "" for a top-level file
ParentName(path) == IF Len(path) > 1 THEN path[Len(path) - 1] ELSE <<>>

\* p.endswith('.h')
EndsWithH(path) == path # <<>> /\ FileName(path)[Len(FileName(path))] = ".h"

Declaration(kind, name) == [kind |-> kind, name |-> name]

\* the names of the declarations of one kind, one entry per match
Matches(content, kind) ==
    LET of_kind == SelectSeq(content, LAMBDA decl : decl.kind = kind)
    IN [i \in 1..Len(of_kind) |-> of_kind[i].name]

\* includes that do not start with std or sys/
LocalIncludes(content) ==
    SelectSeq(Matches(content, "include"),
              LAMBDA inc : ~ (inc # <<>> /\ inc[1] \in {"std", "sys/"}))

\* parse_header_file that takes the name from the file after opening it
parse_header_file_NameAfterOpen(file_path, readable, content) ==
    IF readable
    THEN InterfaceDefinition(Stem(FileName(file_path)), file_path,
            Matches(content, "function"), Matches(content, "struct"),
            Matches(content, "define"), LocalIncludes(content))
    ELSE InterfaceDefinition(<<>>, file_path, <<>>, <<>>, <<>>, <<>>)

\* parse_header_file: an unreadable file leaves the descriptor empty
parse_header_file(file_path, readable, content) ==
    IF readable
    THEN InterfaceDefinition(Stem(FileName(file_path)), file_path,
            Matches(content, "function"), Matches(content, "struct"),
            Matches(content, "define"), LocalIncludes(content))
    ELSE InterfaceDefinition(Stem(FileName(file_path)), file_path,
            <<>>, <<>>, <<>>, <<>>)

(***************************************************************************)
(* A caller that parses header files one after the other                    *)
(***************************************************************************)
\* what the four patterns of the parser can match in a header
ParsedDeclarations ==
    {Declaration("function", <<"kmalloc">>), Declaration("struct", <<"page_t">>),
     Declaration("define", <<"PAGE_SIZE">>),
     Declaration("include", <<"include/", "syscall", "_", "interface", ".h">>),
     Declaration("include", <<"std", "io", ".h">>),
     Declaration("include", <<"sys/", "types", ".h">>)}

\* a header file on disk: unreadable, or readable with some content
ArtifactFiles ==
    {[readable |-> FALSE, content |-> <<>>]}
    \cup {[readable |-> TRUE, content |-> c] :
            c \in SeqsUpTo(ParsedDeclarations, MaxDeclarations)}

\* the current version of a changed header and the temporary file that holds
\* its base revision
InitParse ==
    /\ ReuseIdle
    /\ AlertsIdle
    /\ ValidatorIdle
    /\ CompareIdle
    /\ ChangesIdle
    /\ MainIdle
    /\ \E first, second \in ArtifactFiles :
          artifacts =
              <<[file_path |-> <<<<"kernel">>, <<"include">>,
                                 <<"memory", "_", "interface", ".h">>>>,
                 readable |-> first.readable, content |-> first.content],
                [file_path |-> temp_path,
                 readable |-> second.readable, content |-> second.content]>>
    /\ descriptors = <<>>

\* the next call of parse_header_file
ParseNext ==
    /\ Len(descriptors) < Len(artifacts)
    /\ LET artifact == artifacts[Len(descriptors) + 1]
       IN descriptors' =
              Append(descriptors,
                     parse_header_file(artifact.file_path, artifact.readable,
                                       artifact.content))
    /\ UNCHANGED <<returned_before, avars, artifacts, vvars, cvars, dvars, mvars>>

NextParse == ParseNext

SpecParse == InitParse /\ [][NextParse]_vars

(***************************************************************************)
(* CompatibilityChecker.check_interface_changes                             *)
(***************************************************************************)
kernel_include_memory_interface_h == <<<<"kernel">>, <<"include">>, memory_interface_h>>
top_level_syscall_interface_h == <<syscall_interface_h>>

HeaderPaths == {kernel_include_memory_interface_h, top_level_syscall_interface_h}

HeaderDeclarations ==
    {Declaration("function", "kmalloc"), Declaration("define", "PAGE_SIZE")}

HeaderContents == SeqsUpTo(HeaderDeclarations, MaxDeclarations)

\* the issues of one changed file with the descriptor of the base revision named
\* in the interface field
FileIssues_PreviousName(file_path, tree, hist) ==
    IF ~ EndsWithH(file_path) \/ ~ tree[file_path].exists THEN {<<>>}
    ELSE IF hist[file_path].show # "ok" THEN {<<>>}
    ELSE LET current_interface ==
                 parse_header_file(file_path, TRUE, tree[file_path].content)
             previous_interface ==
                 parse_header_file(temp_path, TRUE, hist[file_path].content)
         IN {[k \in 1..Len(changes) |->
                 DependencyIssue("error", ParentName(file_path),
                     previous_interface.name, changes[k], file_path)] :
              changes \in compare_interfaces(previous_interface, current_interface)}

\* FileIssues that compares a header deleted from the working tree with an
\* empty descriptor
FileIssues_ComparesDeleted(file_path, tree, hist) ==
    IF ~ EndsWithH(file_path) THEN {<<>>}
    ELSE IF hist[file_path].show # "ok" THEN {<<>>}
    ELSE LET current_interface ==
                 parse_header_file(file_path, tree[file_path].exists,
                                   tree[file_path].content)
             previous_interface ==
                 parse_header_file(temp_path, TRUE, hist[file_path].content)
         IN {[k \in 1..Len(changes) |->
                 DependencyIssue("error", ParentName(file_path),
                     current_interface.name, changes[k], file_path)] :
              changes \in compare_interfaces(previous_interface, current_interface)}

\* FileIssues that reports a header whose base revision cannot be obtained
FileIssues_ReportsMissingHistory(file_path, tree, hist) ==
    IF ~ EndsWithH(file_path) \/ ~ tree[file_path].exists THEN {<<>>}
    ELSE IF hist[file_path].show # "ok"
    THEN {<<DependencyIssue("error", ParentName(file_path),
               Stem(FileName(file_path)),
               [kind |-> "no_previous_version", subject |-> <<>>], file_path)>>}
    ELSE LET current_interface ==
                 parse_header_file(file_path, TRUE, tree[file_path].content)
             previous_interface ==
                 parse_header_file(temp_path, TRUE, hist[file_path].content)
         IN {[k \in 1..Len(changes) |->
                 DependencyIssue("error", ParentName(file_path),
                     current_interface.name, changes[k], file_path)] :
              changes \in compare_interfaces(previous_interface, current_interface)}

\* the issues one changed file can add: none when it is gone from the working
\* tree or when git show fails or raises, else one per breaking change
FileIssues(file_path, tree, hist) ==
    IF ~ EndsWithH(file_path) \/ ~ tree[file_path].exists THEN {<<>>}
    ELSE IF hist[file_path].show # "ok" THEN {<<>>}
    ELSE LET current_interface ==
                 parse_header_file(file_path, TRUE, tree[file_path].content)
             previous_interface ==
                 parse_header_file(temp_path, TRUE, hist[file_path].content)
         IN {[k \in 1..Len(changes) |->
                 DependencyIssue("error", ParentName(file_path),
                     current_interface.name, changes[k], file_path)] :
              changes \in compare_interfaces(previous_interface, current_interface)}

\* the loop over changed_files
RECURSIVE ChangedFilesLoop(_, _, _)
ChangedFilesLoop(files, tree, hist) ==
    IF files = <<>> THEN {<<>>}
    ELSE {first \o rest :
            first \in FileIssues(Head(files), tree, hist),
            rest \in ChangedFilesLoop(Tail(files), tree, hist)}

\* the lists check_interface_changes can return; a git diff that raises ends it
\* with the empty list
check_interface_changes(diff, files, tree, hist) ==
    IF diff = "raise" THEN {<<>>}
    ELSE ChangedFilesLoop(files, tree, hist)

NoFile == [exists |-> FALSE, content |-> <<>>]
NoHistory == [show |-> "nonzero", content |-> <<>>]

\* working-tree states of a changed header: deleted, or present with some content
WorktreeFiles ==
    {NoFile} \cup {[exists |-> TRUE, content |-> c] : c \in HeaderContents}

\* results of git show: a non-zero status, an exception, or the old content
HistoryEntries ==
    {NoHistory, [show |-> "raise", content |-> <<>>]}
    \cup {[show |-> "ok", content |-> c] : c \in HeaderContents}

\* a change check on some revision pair: git diff raises, or lists headers that
\* differ between the revisions, each once
InitChanges ==
    /\ ReuseIdle
    /\ AlertsIdle
    /\ ParserIdle
    /\ ValidatorIdle
    /\ CompareIdle
    /\ MainIdle
    /\ \/ /\ git_diff = "raise"
          /\ changed_files = <<>>
          /\ worktree = [p \in HeaderPaths |-> NoFile]
          /\ history = [p \in HeaderPaths |-> NoHistory]
       \/ /\ git_diff = "ok"
          /\ changed_files \in SeqsNoDup(HeaderPaths, Cardinality(HeaderPaths))
          /\ worktree \in [HeaderPaths -> WorktreeFiles]
          /\ history \in [HeaderPaths -> HistoryEntries]
          /\ \A p \in HeaderPaths :
                p \notin Range(changed_files) =>
                    worktree[p] = NoFile /\ history[p] = NoHistory
    /\ change_issues = <<>>
    /\ dpc = "requested"

CheckChanges ==
    /\ dpc = "requested"
    /\ change_issues' \in
          check_interface_changes(git_diff, changed_files, worktree, history)
    /\ dpc' = "checked"
    /\ UNCHANGED <<returned_before, avars, pvars, git_diff, changed_files, worktree, history, vvars, cvars, mvars>>

NextChanges == CheckChanges

SpecChanges == InitChanges /\ [][NextChanges]_vars

(***************************************************************************)
(* ComponentAnalyzer: discover_components and analyze_component_interfaces  *)
(*                                                                          *)
(* The project tree is a map from paths to files.  The content of a file is *)
(* the sequence of its #include lines; the include pattern accepts either   *)
(* delimiter, so a line keeps its delimiter only for the properties.        *)
(***************************************************************************)
\* most #include lines in one file of the project tree
MaxIncludes == 1

kernel_memory_c == <<<<"kernel">>, <<"memory", ".c">>>>
kernel_process_syscall_interface_h == <<<<"kernel">>, <<"process">>, syscall_interface_h>>

\* the files the project tree may hold
ProjectPaths ==
    {kernel_include_memory_interface_h, kernel_memory_c,
     kernel_process_syscall_interface_h}

\* the rows of agent_components that can match a file of ProjectPaths, in the
\* order of the dictionary
agent_components ==
    <<[agent_type |-> "kernel-architect",
       paths |-> <<<<<<"kernel">>, <<"kernel", ".c">>>>, kernel_memory_c,
                   <<<<"kernel">>, <<"process">>>>, <<<<"kernel">>, <<"include">>>>>>],
      [agent_type |-> "memory-manager",
       paths |-> <<kernel_memory_c, <<<<"kernel">>, <<"pmm", ".c">>>>,
                   <<<<"kernel">>, <<"paging", ".c">>>>>>],
      [agent_type |-> "process-scheduler",
       paths |-> <<<<<<"kernel">>, <<"process">>>>,
                   <<<<"kernel">>, <<"syscall", ".c">>>>>>]>>

\* include targets, tokenised: a directory prefix is one token
include_memory_interface_h == <<"include/">> \o memory_interface_h
linux_x_h == <<"linux/", "x", ".h">>
sys_types_h == <<"sys/", "types", ".h">>
stdio_h == <<"std", "io", ".h">>

DirectoryTokens == {"include/", "linux/", "sys/"}

\* one #include line: angle is TRUE for <target>, FALSE for "target"
IncludeLine(target, angle) == [kind |-> "include", name |-> target, angle |-> angle]

IncludeLines ==
    {IncludeLine(include_memory_interface_h, FALSE),
     IncludeLine(linux_x_h, TRUE),
     IncludeLine(sys_types_h, TRUE),
     IncludeLine(stdio_h, TRUE)}

AbsentFile == [exists |-> FALSE, readable |-> FALSE, content |-> <<>>]

\* a file of the tree: absent, present but unreadable, or present with content
ProjectFileStates ==
    {AbsentFile, [exists |-> TRUE, readable |-> FALSE, content |-> <<>>]}
    \cup {[exists |-> TRUE, readable |-> TRUE, content |-> c] :
            c \in SeqsUpTo(IncludeLines, MaxIncludes)}

\* AgentComponent as discover_components creates it
DiscoveredComponent(agent_type, file_paths) ==
    [name |-> agent_type \o "-component", agent_type |-> agent_type,
     file_paths |-> file_paths,
     interfaces_provided |-> <<>>, interfaces_required |-> <<>>]

\* file_path.suffix in ['.c', '.h', '.cpp', '.hpp']
HasSourceSuffix(path) ==
    FileName(path)[Len(FileName(path))] \in {".c", ".h", ".cpp", ".hpp"}

\* path lies under the directory dir
IsUnder(dir, path) == Len(dir) < Len(path) /\ SubSeq(path, 1, Len(dir)) = dir

\* the file paths one path pattern adds, in each order rglob can yield them
PatternFiles(pattern, files) ==
    IF pattern \in DOMAIN files /\ files[pattern].exists THEN {<<pattern>>}
    ELSE Enumerations({p \in DOMAIN files :
            files[p].exists /\ IsUnder(pattern, p) /\ HasSourceSuffix(p)})

\* the file_paths lists the patterns of one agent can give
RECURSIVE PatternsFiles(_, _)
PatternsFiles(patterns, files) ==
    IF patterns = <<>> THEN {<<>>}
    ELSE {first \o rest :
            first \in PatternFiles(Head(patterns), files),
            rest \in PatternsFiles(Tail(patterns), files)}

\* the loop over agent_components: a component without files is dropped
RECURSIVE DiscoverLoop(_, _)
DiscoverLoop(rows, files) ==
    IF rows = <<>> THEN {<<>>}
    ELSE {(IF file_paths = <<>> THEN <<>>
           ELSE <<DiscoveredComponent(Head(rows).agent_type, file_paths)>>) \o rest :
            file_paths \in PatternsFiles(Head(rows).paths, files),
            rest \in DiscoverLoop(Tail(rows), files)}

\* the component lists discover_components can return
discover_components(files) == DiscoverLoop(agent_components, files)

\* included_file.startswith('std')
StartsWithStd(included_file) == included_file # <<>> /\ included_file[1] = "std"

\* '/' in included_file
HasSlash(included_file) ==
    \E i \in 1..Len(included_file) : included_file[i] \in DirectoryTokens

\* Path(included_file).name
IncludedName(included_file) ==
    LET slashes == {i \in 1..Len(included_file) : included_file[i] \in DirectoryTokens}
        last == IF slashes = {} THEN 0
                ELSE CHOOSE i \in slashes : \A j \in slashes : j <= i
    IN SubSeq(included_file, last + 1, Len(included_file))

\* the names the include lines of one header add to interfaces_required: the
\* target ends in .h, does not start with std and holds a '/'
RequiredOf(content) ==
    LET included == SelectSeq(Matches(content, "include"),
                        LAMBDA included_file :
                            /\ included_file # <<>>
                            /\ included_file[Len(included_file)] = ".h"
                            /\ ~ StartsWithStd(included_file)
                            /\ HasSlash(included_file))
    IN [i \in 1..Len(included) |-> IncludedName(included[i])]

\* the loop over component.file_paths: a file that is no header is skipped, a
\* header is provided before it is opened, and one that cannot be read adds
\* nothing to the required list
RECURSIVE AnalyzeLoop(_, _, _)
AnalyzeLoop(file_paths, files, found) ==
    IF file_paths = <<>> THEN found
    ELSE LET file_path == Head(file_paths)
         IN IF ~ EndsWithH(file_path) THEN AnalyzeLoop(Tail(file_paths), files, found)
            ELSE AnalyzeLoop(Tail(file_paths), files,
                    [provided |-> Append(found.provided, FileName(file_path)),
                     required |-> found.required \o
                        (IF files[file_path].readable
                         THEN RequiredOf(files[file_path].content)
                         ELSE <<>>)])

\* the components analyze_component_interfaces can return: list(set(...)) gives
\* each list in some order
analyze_component_interfaces(component, files) ==
    LET found == AnalyzeLoop(component.file_paths, files,
                    [provided |-> component.interfaces_provided,
                     required |-> component.interfaces_required])
    IN {[component EXCEPT !.interfaces_provided = provided,
                          !.interfaces_required = required] :
            provided \in Enumerations(Range(found.provided)),
            required \in Enumerations(Range(found.required))}

\* the loop of main() over the discovered components
RECURSIVE AnalyzeAll(_, _)
AnalyzeAll(comps, files) ==
    IF comps = <<>> THEN {<<>>}
    ELSE {<<first>> \o rest :
            first \in analyze_component_interfaces(Head(comps), files),
            rest \in AnalyzeAll(Tail(comps), files)}

(***************************************************************************)
(* DependencyReporter and main()                                            *)
(***************************************************************************)
\* len([i for i in issues if i.severity == severity])
CountSeverity(list, severity) ==
    Cardinality({k \in 1..Len(list) : list[k].severity = severity})

\* what generate_report puts in the report: the summary and the issue list
generate_report(comps, list) ==
    [components_analyzed |-> Len(comps),
     total_issues |-> Len(list),
     errors |-> CountSeverity(list, "error"),
     warnings |-> CountSeverity(list, "warning"),
     issues |-> list]

\* ExitStatus that counts every issue
ExitStatus_AnyIssue(list) == IF Len(list) > 0 THEN 1 ELSE 0

\* sys.exit(1 if error_count > 0 else 0)
ExitStatus(list) == IF CountSeverity(list, "error") > 0 THEN 1 ELSE 0

\* the file of the project tree as the change check finds it
WorktreeOf(files, path) ==
    IF path \in DOMAIN files /\ files[path].exists
    THEN [exists |-> TRUE, content |-> files[path].content]
    ELSE NoFile

\* the base revision of the header the change check can be asked about
kmalloc_header == <<Declaration("function", "kmalloc")>>

\* a run of main() on some project tree, without --check-changes or with a
\* base revision against which git diff raises, lists nothing, or lists the
\* memory interface header
InitMain ==
    /\ ReuseIdle
    /\ AlertsIdle
    /\ ParserIdle
    /\ CompareIdle
    /\ ValidatorIdle
    /\ project_files \in [ProjectPaths -> ProjectFileStates]
    /\ \/ /\ check_changes = FALSE
          /\ git_diff = "idle"
          /\ changed_files = <<>>
          /\ worktree = <<>>
          /\ history = <<>>
       \/ /\ check_changes = TRUE
          /\ git_diff = "raise"
          /\ changed_files = <<>>
          /\ worktree = [p \in HeaderPaths |-> NoFile]
          /\ history = [p \in HeaderPaths |-> NoHistory]
       \/ /\ check_changes = TRUE
          /\ git_diff = "ok"
          /\ changed_files \in {<<>>, <<kernel_include_memory_interface_h>>}
          /\ worktree = [p \in HeaderPaths |->
                            IF p \in Range(changed_files)
                            THEN WorktreeOf(project_files, p) ELSE NoFile]
          /\ history \in [HeaderPaths -> {NoHistory, [show |-> "raise", content |-> <<>>],
                                          [show |-> "ok", content |-> kmalloc_header]}]
          /\ \A p \in HeaderPaths : ~ worktree[p].exists => history[p] = NoHistory
    /\ change_issues = <<>>
    /\ dpc = "idle"
    /\ report = <<>>
    /\ exit_status = "none"
    /\ mpc = "started"

\* components = analyzer.discover_components()
Discover ==
    /\ mpc = "started"
    /\ components' \in discover_components(project_files)
    /\ mpc' = "discovered"
    /\ UNCHANGED <<returned_before, avars, pvars, issues, dependency_graph, dfs_entered, vpc, cvars, dvars,
                   project_files, check_changes, report, exit_status>>

\* components[i] = analyzer.analyze_component_interfaces(component), for each i
Analyze ==
    /\ mpc = "discovered"
    /\ components' \in AnalyzeAll(components, project_files)
    /\ mpc' = "analyzed"
    /\ UNCHANGED <<returned_before, avars, pvars, issues, dependency_graph, dfs_entered, vpc, cvars, dvars,
                   project_files, check_changes, report, exit_status>>

\* issues = validator.validate_interface_compatibility(components)
ValidateDependencies ==
    /\ mpc = "analyzed"
    /\ \E ord \in NeighbourOrders(DependencyGraph(components)) :
          /\ issues' = validate_interface_compatibility(components, ord)
          /\ dfs_entered' = SearchState(GraphKeys(components), NoneVisited, ord).entered
    /\ dependency_graph' = DependencyGraph(components)
    /\ mpc' = "validated"
    /\ UNCHANGED <<returned_before, avars, pvars, components, vpc, cvars, dvars,
                   project_files, check_changes, report, exit_status>>

\* if args.check_changes: issues.extend(check_interface_changes(...))
CheckInterfaceChanges ==
    /\ mpc = "validated"
    /\ check_changes
    /\ change_issues' \in
          check_interface_changes(git_diff, changed_files, worktree, history)
    /\ issues' = issues \o change_issues'
    /\ mpc' = "checked"
    /\ UNCHANGED <<returned_before, avars, pvars, components, dependency_graph, dfs_entered, vpc, cvars,
                   git_diff, changed_files, worktree, history, dpc,
                   project_files, check_changes, report, exit_status>>

\* report = reporter.generate_report(components, issues, args.format)
GenerateReport ==
    /\ \/ mpc = "checked"
       \/ mpc = "validated" /\ ~ check_changes
    /\ report' = <<generate_report(components, issues)>>
    /\ mpc' = "reported"
    /\ UNCHANGED <<returned_before, avars, pvars, vvars, cvars, dvars, project_files, check_changes, exit_status>>

\* sys.exit(1 if error_count > 0 else 0)
Exit ==
    /\ mpc = "reported"
    /\ exit_status' = ExitStatus(issues)
    /\ mpc' = "exited"
    /\ UNCHANGED <<returned_before, avars, pvars, vvars, cvars, dvars, project_files, check_changes, report>>

\* the headers of a tree in which two directories of one agent hold a header of
\* the same name
kernel_process_memory_interface_h == <<<<"kernel">>, <<"process">>, memory_interface_h>>

HeaderTreePaths ==
    {kernel_include_memory_interface_h, kernel_process_memory_interface_h,
     kernel_process_syscall_interface_h}

\* discovery and analysis on a tree of headers
InitAnalyze ==
    /\ ReuseIdle
    /\ AlertsIdle
    /\ ParserIdle
    /\ CompareIdle
    /\ ValidatorIdle
    /\ ChangesIdle
    /\ project_files \in [HeaderTreePaths -> ProjectFileStates]
    /\ check_changes = FALSE
    /\ report = <<>>
    /\ exit_status = "none"
    /\ mpc = "started"

NextAnalyze ==
    \/ Discover
    \/ Analyze

SpecAnalyze == InitAnalyze /\ [][NextAnalyze]_vars

NextMain ==
    \/ Discover
    \/ Analyze
    \/ ValidateDependencies
    \/ CheckInterfaceChanges
    \/ GenerateReport
    \/ Exit

SpecMain == InitMain /\ [][NextMain]_vars

(***************************************************************************)
(* tools/monitoring/infrastructure-monitor.py: AlertManager                 *)
(*                                                                          *)
(* Time is counted in ticks of datetime.utcnow(), TicksPerMinute to the     *)
(* minute; the clock never runs backwards.                                  *)
(***************************************************************************)
\* ticks of the clock in one minute
TicksPerMinute == 2
\* last tick of the clock in a run
MaxTime == 4
\* largest cooldown_minutes of an alert configuration
MaxCooldown == 2
\* most alert configurations in the file
MaxAlerts == 2
\* most notifications sent for one alert in a run
MaxNotifications == 2
\* most ticks between two readings of the clock in one call
MaxReadGap == 1

MetricNames == {"build_queue_length", "test_success_rate"}
Comparisons == {"gt", "lt", "eq", "ne"}
\* every alert of the model has this threshold_value
Threshold == 10
\* metric values below, at and above the threshold
MetricValues == {Threshold - 1, Threshold, Threshold + 1}

\* last_alert_time: Optional[datetime] = None
NoAlertTime == <<>>

\* AlertConfig(**alert_config) as load_config builds it
AlertConfig(metric_name, comparison, cooldown_minutes) ==
    [metric_name |-> metric_name, threshold_value |-> Threshold,
     comparison |-> comparison, cooldown_minutes |-> cooldown_minutes,
     last_alert_time |-> NoAlertTime]

\* timedelta that takes the minutes for ticks
timedelta_Ticks(minutes) == minutes

\* timedelta(minutes=alert.cooldown_minutes) in ticks
timedelta(minutes) == minutes * TicksPerMinute

\* alert.last_alert_time and utcnow() - alert.last_alert_time < timedelta(...)
InCooldown(alert, now) ==
    /\ alert.last_alert_time # NoAlertTime
    /\ now - alert.last_alert_time[1] < timedelta(alert.cooldown_minutes)

\* the threshold test of check_metric
Triggered(alert, value) ==
    \/ alert.comparison = "gt" /\ value > alert.threshold_value
    \/ alert.comparison = "lt" /\ value < alert.threshold_value
    \/ alert.comparison = "eq" /\ value = alert.threshold_value
    \/ alert.comparison = "ne" /\ value # alert.threshold_value

\* the AlertManager and the clock as one value
ManagerState ==
    [alerts |-> alerts, active_alerts |-> active_alerts,
     notifications |-> notifications,
     previous_alert_time |-> previous_alert_time, utcnow |-> utcnow]

\* trigger_alert(alert, value) for the alert at position i, the clock read gap
\* ticks after check_metric read it
trigger_alert(st, i, gap) ==
    LET now == st.utcnow + gap
    IN [st EXCEPT !.utcnow = now,
                  !.previous_alert_time[i] = st.alerts[i].last_alert_time,
                  !.alerts[i].last_alert_time = <<now>>,
                  !.active_alerts =
                      [m \in DOMAIN @ \cup {st.alerts[i].metric_name} |->
                          IF m = st.alerts[i].metric_name THEN i ELSE @[m]],
                  !.notifications[i] = @ + 1]

\* the loop of check_metric from the alert at position i on; gap is the time
\* that passes between the reading of the clock in check_metric and the one in
\* trigger_alert
RECURSIVE check_metric(_, _, _, _, _)
check_metric(i, st, metric_name, value, gap) ==
    IF i > Len(st.alerts) THEN st
    ELSE IF st.alerts[i].metric_name # metric_name
    THEN check_metric(i + 1, st, metric_name, value, gap)
    ELSE IF InCooldown(st.alerts[i], st.utcnow)
    THEN check_metric(i + 1, st, metric_name, value, gap)
    ELSE IF Triggered(st.alerts[i], value)
    THEN check_metric(i + 1, trigger_alert(st, i, gap), metric_name, value, gap)
    ELSE check_metric(i + 1, st, metric_name, value, gap)

\* the alert configurations of a file: one alert of any comparison, or two
\* alerts (upper or lower limits) on one metric or on one metric each
AlertFiles ==
    {<<AlertConfig("build_queue_length", c, m)>> :
        c \in Comparisons, m \in 0..MaxCooldown}
    \cup
    {<<AlertConfig("build_queue_length", "gt", m1), AlertConfig(n, c2, m2)>> :
        m1 \in 0..MaxCooldown, n \in MetricNames,
        c2 \in {"gt", "lt"}, m2 \in 0..MaxCooldown}

\* AlertManager(config_file): the alerts of the file, nothing active
InitAlerts ==
    /\ ReuseIdle
    /\ ValidatorIdle /\ CompareIdle /\ ChangesIdle /\ MainIdle /\ ParserIdle
    /\ \E file \in {f \in AlertFiles : Len(f) <= MaxAlerts} : alerts = file
    /\ active_alerts = <<>>
    /\ notifications = [i \in 1..Len(alerts) |-> 0]
    /\ previous_alert_time = [i \in 1..Len(alerts) |-> NoAlertTime]
    /\ utcnow = 0
    /\ last_check = <<>>

\* time passes between two calls
Tick ==
    /\ utcnow < MaxTime
    /\ utcnow' = utcnow + 1
    /\ UNCHANGED <<alerts, active_alerts, notifications, previous_alert_time, last_check>>
    /\ UNCHANGED <<returned_before, vvars, cvars, dvars, mvars, pvars>>

\* alert_manager.check_metric(metric_name, value)
CheckMetric ==
    \E metric_name \in MetricNames, value \in MetricValues :
       \E gap \in 0..MaxReadGap :
          LET after == check_metric(1, ManagerState, metric_name, value, gap)
          IN /\ after.utcnow <= MaxTime
             /\ \A i \in 1..Len(alerts) : after.notifications[i] <= MaxNotifications
             /\ alerts' = after.alerts
             /\ active_alerts' = after.active_alerts
             /\ notifications' = after.notifications
             /\ previous_alert_time' = after.previous_alert_time
             /\ utcnow' = after.utcnow
             /\ last_check' = <<[metric_name |-> metric_name, value |-> value,
                                 time |-> utcnow]>>
             /\ UNCHANGED <<returned_before, vvars, cvars, dvars, mvars, pvars>>

\* alert_manager.clear_alert(metric_name)
ClearAlert ==
    \E metric_name \in DOMAIN active_alerts :
       /\ active_alerts' = [m \in DOMAIN active_alerts \ {metric_name} |-> active_alerts[m]]
       /\ UNCHANGED <<alerts, notifications, previous_alert_time, utcnow, last_check>>
       /\ UNCHANGED <<returned_before, vvars, cvars, dvars, mvars, pvars>>

NextAlerts == Tick \/ CheckMetric \/ ClearAlert

SpecAlerts == InitAlerts /\ [][NextAlerts]_vars

(***************************************************************************)
(* Properties of the validator                                              *)
(***************************************************************************)
Validated == vpc = "validated"

Indices(seq) == 1..Len(seq)

\* some component of the input provides interface
Provides(interface) ==
    \E i \in Indices(components) : interface \in Range(components[i].interfaces_provided)

IsUnresolved(issue, name, interface) ==
    /\ issue.message.kind = "not_provided"
    /\ issue.severity = "error"
    /\ issue.component = <<name>>
    /\ issue.interface = interface

CircularIssues(list) == {k \in Indices(list) : list[k].message.kind = "circular"}

OwnershipIssues(list) == {k \in Indices(list) : list[k].message.kind = "multiple_providers"}

\* the components named by the circular-dependency issues of a list
CircularComponents(list) == {list[k].component[1] : k \in CircularIssues(list)}

\* C1: when some component of the input provides interface I, no returned issue is
\* an unresolved-interface error against any component X for I.
C1_NoFalseUnresolved ==
    Validated =>
        \A i \in Indices(components) : \A interface \in InterfaceNames :
            Provides(interface) =>
                ~ \E k \in Indices(issues) :
                      IsUnresolved(issues[k], components[i].name, interface)

\* a component requires an interface another component provides, while the same
\* run does report some other interface as unresolved
C1_Witness ==
    /\ Validated
    /\ \E i \in Indices(components) :
          \E interface \in Range(components[i].interfaces_required) :
             /\ Provides(interface)
             /\ interface \notin Range(components[i].interfaces_provided)
    /\ \E k \in Indices(issues) : issues[k].message.kind = "not_provided"

\* C2: for every component X and interface I that X requires, when no component
\* provides I the returned list has an error issue with component X and interface I.
C2_UnresolvedReported ==
    Validated =>
        \A i \in Indices(components) :
            \A interface \in Range(components[i].interfaces_required) :
                ~ Provides(interface) =>
                    \E k \in Indices(issues) :
                        /\ issues[k].severity = "error"
                        /\ issues[k].component = <<components[i].name>>
                        /\ issues[k].interface = interface

\* a component requires two interfaces that nobody provides
C2_Witness ==
    /\ Validated
    /\ \E i \in Indices(components) :
          /\ Len(components[i].interfaces_required) = 2
          /\ \A interface \in Range(components[i].interfaces_required) :
                ~ Provides(interface)

\* the only provider of interface is the component at position j
ProvidedOnlyBy(interface, j) ==
    \A i \in Indices(components) :
        interface \in Range(components[i].interfaces_provided) <=> i = j

\* components A, B, C at positions a, b, c: each requires an interface only the
\* next one provides, and these are all the dependencies there are
ThreeCycle ==
    /\ Len(components) = 3
    /\ \E a, b, c \in Indices(components) :
          /\ {a, b, c} = Indices(components)
          /\ \E interface \in Range(components[a].interfaces_required) :
                ProvidedOnlyBy(interface, b)
          /\ \E interface \in Range(components[b].interfaces_required) :
                ProvidedOnlyBy(interface, c)
          /\ \E interface \in Range(components[c].interfaces_required) :
                ProvidedOnlyBy(interface, a)
          /\ DependencyGraph(components) =
                (components[a].name :> {components[b].name}
                 @@ components[b].name :> {components[c].name}
                 @@ components[c].name :> {components[a].name})

Reorderings(comps) ==
    {[i \in Indices(comps) |-> comps[p[i]]] : p \in Enumerations(Indices(comps))}

\* C4: for a fixed set of Component records the set of components named in
\* circular-dependency issues is the same for every listing order of the
\* components and every iteration order of the neighbour sets.
C4_CycleReportOrderIndependent ==
    Validated =>
        \A other \in Reorderings(components) :
            \A ord \in NeighbourOrders(DependencyGraph(other)) :
                CircularComponents(check_circular_dependencies(other, ord))
                    = CircularComponents(issues)

\* nodes reachable from n by one or more edges
RECURSIVE ReachFrom(_, _, _)
ReachFrom(frontier, seen, graph) ==
    LET next == UNION {graph[m] : m \in frontier}
    IN IF next \subseteq seen THEN seen
       ELSE ReachFrom(next \ seen, seen \cup next, graph)

Reachable(n, graph) == ReachFrom({n}, {}, graph)

OnCycle(n, graph) == n \in Reachable(n, graph)

SameSCC(n, m, graph) ==
    n = m \/ (m \in Reachable(n, graph) /\ n \in Reachable(m, graph))

\* C5: every circular-dependency issue names a component that lies on a directed
\* cycle, and no strongly connected component has two issues naming its members.
C5_OneIssuePerCycle ==
    Validated =>
        LET graph == DependencyGraph(components)
        IN /\ \A k \in CircularIssues(issues) : OnCycle(issues[k].component[1], graph)
           /\ \A k, l \in CircularIssues(issues) :
                 k # l => ~ SameSCC(issues[k].component[1], issues[l].component[1], graph)

\* the interface names of the universe that contain memory_interface,
\* process_interface or filesystem_interface
NamesWithCriticalMarker == {memory_interface_h, vfs_filesystem_interface_h}

\* C6: the ownership issue of an interface with two or more providers has severity
\* error when the interface name contains memory_interface, process_interface or
\* filesystem_interface, and severity warning otherwise.
C6_OwnershipSeverity ==
    Validated =>
        \A k \in OwnershipIssues(issues) :
            issues[k].severity =
                (IF issues[k].interface \in NamesWithCriticalMarker
                 THEN "error" ELSE "warning")

\* one run reports a shared critical interface whose marker is not at the start of
\* the name, and a shared non-critical one
C6_Witness ==
    /\ Validated
    /\ \E k, l \in OwnershipIssues(issues) :
          /\ issues[k].interface = vfs_filesystem_interface_h
          /\ issues[k].severity = "error"
          /\ issues[l].interface = syscall_interface_h
          /\ issues[l].severity = "warning"

\* names of the components that provide interface, in listing order
ProvidersInOrder(interface) ==
    LET providing == SelectSeq(components,
                        LAMBDA c : interface \in Range(c.interfaces_provided))
    IN [j \in Indices(providing) |-> providing[j].name]

\* text is the names joined by ", "
IsJoined(text, names) ==
    /\ Len(text) = 2 * Len(names) - 1
    /\ \A j \in Indices(names) : text[2 * j - 1] = names[j]
    /\ \A j \in 1..(Len(names) - 1) : text[2 * j] = ", "

\* C7: there is exactly one ownership issue for each interface with more than one
\* provider and none for the others; its component field is the provider names
\* joined by ", " in listing order, its interface field the interface name.
C7_OneOwnershipIssuePerSharedInterface ==
    Validated =>
        /\ \A interface \in InterfaceNames :
              LET about == {k \in OwnershipIssues(issues) : issues[k].interface = interface}
                  providers == ProvidersInOrder(interface)
              IN IF Len(providers) > 1
                 THEN /\ Cardinality(about) = 1
                      /\ \A k \in about : IsJoined(issues[k].component, providers)
                 ELSE about = {}
        /\ \A k \in OwnershipIssues(issues) : issues[k].interface \in InterfaceNames

\* three providers of one interface, listed against the order of their names, next
\* to an interface with a single provider
C7_Witness ==
    /\ Validated
    /\ Len(ProvidersInOrder(memory_interface_h)) = 3
    /\ components[1].name = "process-scheduler-component"
    /\ components[3].name = "kernel-architect-component"
    /\ Len(ProvidersInOrder(syscall_interface_h)) = 1
    /\ Cardinality(OwnershipIssues(issues)) = 1

(***************************************************************************)
(* Properties of compare_interfaces                                         *)
(***************************************************************************)
Compared == cpc = "compared"

Removed(kind) ==
    CASE kind = "function_removed" -> Range(previous.functions) \ Range(current.functions)
      [] kind = "structure_removed" -> Range(previous.structures) \ Range(current.structures)
      [] kind = "constant_removed" -> Range(previous.constants) \ Range(current.constants)

RemovalKinds == {"function_removed", "structure_removed", "constant_removed"}

NothingRemoved == \A kind \in RemovalKinds : Removed(kind) = {}

\* C8: when every function, structure and constant of P is also in C,
\* compare_interfaces(P, C) returns an empty list, whatever C adds.
C8_SupersetNoBreakingChange ==
    (Compared /\ NothingRemoved) => breaking_changes = <<>>

\* P declares symbols of every kind and C keeps them all and adds a function
C8_Witness ==
    /\ Compared
    /\ NothingRemoved
    /\ previous.functions # <<>> /\ previous.structures # <<>> /\ previous.constants # <<>>
    /\ Range(current.functions) \ Range(previous.functions) # {}

\* C9: compare_interfaces(P, C) returns exactly one entry per distinct function,
\* structure and constant name that is in P and not in C, also when P lists a
\* name more than once; so the entries number the sum of the three differences.
C9_OneEntryPerRemovedSymbol ==
    Compared =>
        /\ \A kind \in RemovalKinds :
              \A name \in FunctionNames \cup StructureNames \cup ConstantNames :
                 Cardinality({k \in Indices(breaking_changes) :
                                 /\ breaking_changes[k].kind = kind
                                 /\ breaking_changes[k].subject = <<name>>})
                    = (IF name \in Removed(kind) THEN 1 ELSE 0)
        /\ Len(breaking_changes) =
              Cardinality(Removed("function_removed"))
              + Cardinality(Removed("structure_removed"))
              + Cardinality(Removed("constant_removed"))

\* one function that P lists twice, one structure and one constant are removed
C9_Witness ==
    /\ Compared
    /\ Len(previous.functions) = 2
    /\ Cardinality(Removed("function_removed")) = 1
    /\ Range(previous.functions) = Removed("function_removed")
    /\ Cardinality(Removed("structure_removed")) = 1
    /\ Cardinality(Removed("constant_removed")) = 1
    /\ Len(breaking_changes) = 3

(***************************************************************************)
(* Properties of check_interface_changes                                    *)
(***************************************************************************)
Checked == dpc = "checked"

\* the interface names of the two header paths
InterfaceNameOf(path) ==
    IF path = kernel_include_memory_interface_h
    THEN <<"memory", "_", "interface">>
    ELSE <<"syscall", "_", "interface">>

\* the breaking change that the removal of a declaration is
ChangeOf(decl) ==
    [kind |-> IF decl.kind = "function" THEN "function_removed" ELSE "constant_removed",
     subject |-> <<decl.name>>]

\* the declarations of the base revision of path that the working tree lacks,
\* when both revisions of path could be read
RemovedFrom(path) ==
    IF git_diff = "ok" /\ worktree[path].exists /\ history[path].show = "ok"
    THEN Range(history[path].content) \ Range(worktree[path].content)
    ELSE {}

IssuesAbout(path) == {k \in Indices(change_issues) : change_issues[k].file_path = path}

\* C10: every issue check_interface_changes returns has severity error, the
\* name of the compared interface in its interface field and the path of the
\* changed artifact in its file_path field, and each artifact has exactly one
\* issue per breaking change compare_interfaces finds for it.
C10_OneErrorIssuePerBreakingChange ==
    Checked =>
        /\ \A k \in Indices(change_issues) :
              /\ change_issues[k].severity = "error"
              /\ change_issues[k].file_path \in Range(changed_files)
              /\ change_issues[k].interface = InterfaceNameOf(change_issues[k].file_path)
              /\ change_issues[k].message \in {ChangeOf(decl) : decl \in HeaderDeclarations}
        /\ \A path \in HeaderPaths : \A decl \in HeaderDeclarations :
              Cardinality({k \in IssuesAbout(path) :
                              change_issues[k].message = ChangeOf(decl)})
                 = (IF decl \in RemovedFrom(path) THEN 1 ELSE 0)

\* two changed headers: one lost two symbols, the other one
C10_Witness ==
    /\ Checked
    /\ Len(changed_files) = 2
    /\ Cardinality(IssuesAbout(changed_files[1])) = 1
    /\ Cardinality(IssuesAbout(changed_files[2])) = 2
    /\ changed_files[2] = kernel_include_memory_interface_h

\* C11: a changed artifact whose previous-revision content cannot be obtained
\* (git show ends with a non-zero status, as for a path unknown at the base
\* revision, or raises) gets no issue.
C11_NoHistoryNoIssue ==
    Checked =>
        \A path \in Range(changed_files) :
            history[path].show # "ok" => IssuesAbout(path) = {}

\* git show raises for a header that declares symbols in the working tree, while
\* the other changed header of the run does get an issue
C11_Witness ==
    /\ Checked
    /\ \E path, other \in Range(changed_files) :
          /\ history[path].show = "raise"
          /\ worktree[path].exists
          /\ worktree[path].content # <<>>
          /\ IssuesAbout(other) # {}

\* the component of a validated list that carries a name
ComponentNamed(name) ==
    components[CHOOSE i \in Indices(components) : components[i].name = name]

\* some interface required by a is provided by b
RequiresFrom(a, b) ==
    Range(ComponentNamed(a).interfaces_required)
        \cap Range(ComponentNamed(b).interfaces_provided) # {}

\* C18: the dependency graph has an edge from A to B exactly when B is another
\* component than A and some interface A requires is provided by B; a component
\* that requires an interface it provides itself gets no edge to itself.
C18_GraphEdges ==
    Validated =>
        /\ DOMAIN dependency_graph = {components[i].name : i \in Indices(components)}
        /\ \A a, b \in DOMAIN dependency_graph :
              b \in dependency_graph[a] <=> (b # a /\ RequiresFrom(a, b))
        /\ \A a \in DOMAIN dependency_graph : dependency_graph[a] \subseteq DOMAIN dependency_graph

C18_Witness ==
    /\ Validated
    /\ \E a, b \in DOMAIN dependency_graph :
          /\ a # b
          /\ RequiresFrom(a, a)
          /\ RequiresFrom(a, b)
          /\ b \in dependency_graph[a]
          /\ ~ RequiresFrom(b, a)

(***************************************************************************)
(* Properties of the analyzer and of main()                                 *)
(***************************************************************************)
\* main() is past the analysis of the components
Analyzed == mpc \in {"analyzed", "validated", "checked", "reported", "exited"}

\* the files a component owns that were read
ReadFiles(component) ==
    {file_path \in Range(component.file_paths) : project_files[file_path].readable}

\* the interface names the include lines of the chosen delimiter refer to in
\* the files of a set
ReferencedBy(file_paths, angle) ==
    {IncludedName(line.name) :
        line \in {l \in UNION {Range(project_files[f].content) : f \in file_paths} :
                     l.angle = angle}}

\* C16: after analyze_component_interfaces the required interfaces of a
\* component are disjoint from its provided interfaces: an interface the
\* component provides itself is never left among those it requires.
C16_RequiredDisjointFromProvided ==
    Analyzed =>
        \A i \in Indices(components) :
            Range(components[i].interfaces_required)
                \cap Range(components[i].interfaces_provided) = {}

\* C17: every local interface referenced from a file the component owns, header
\* or not, is among the required interfaces of the component (those it provides
\* itself set aside); so is one referenced only from an owned .c file.
C17_ReferencesOfEveryOwnedFileRequired ==
    Analyzed =>
        \A i \in Indices(components) :
            ReferencedBy(ReadFiles(components[i]), FALSE)
                    \ Range(components[i].interfaces_provided)
                \subseteq Range(components[i].interfaces_required)

\* the interface names that only system includes of the read files of a
\* component refer to
SystemOnly(component) ==
    ReferencedBy(ReadFiles(component), TRUE)
        \ ReferencedBy(ReadFiles(component), FALSE)

\* C20: a system include (angle brackets, as <sys/types.h> or <linux/x.h>) in an
\* owned file adds nothing to the dependency list of the descriptor of that
\* file, nothing to the required interfaces of the component, and so no
\* unresolved-interface error.
C20_SystemIncludesNotRequired ==
    /\ mpc \in {"checked", "reported", "exited"} =>
          \A path \in Range(changed_files) :
              worktree[path].exists =>
                  \A line \in Range(worktree[path].content) :
                      line.angle =>
                          line.name \notin
                              Range(parse_header_file(path, TRUE,
                                        worktree[path].content).dependencies)
    /\ Analyzed =>
          \A i \in Indices(components) :
              /\ SystemOnly(components[i])
                    \cap Range(components[i].interfaces_required) = {}
              /\ \A k \in Indices(issues) :
                    \A interface \in SystemOnly(components[i]) :
                        ~ IsUnresolved(issues[k], components[i].name, interface)

\* C19: when discovery resolves to zero components the run stops before the
\* analysis and produces no report; in every other case the run that reaches its
\* exit has analysed the components and produced a report.
C19_NoComponentsNoReport ==
    /\ (mpc # "started" /\ components = <<>>) =>
          (mpc = "discovered" /\ report = <<>>)
    /\ (mpc = "exited" /\ components # <<>>) => report # <<>>

SeverityRank(severity) ==
    CASE severity = "error" -> 0
      [] severity = "warning" -> 1
      [] OTHER -> 2

\* C12: the list handed to the reporter is sorted by severity rank, then
\* component, then interface; by the first key alone no issue is followed by
\* one of a more severe rank.
C12_FinalListSortedBySeverity ==
    report # <<>> =>
        \A k \in 1..(Len(report[1].issues) - 1) :
            SeverityRank(report[1].issues[k].severity)
                <= SeverityRank(report[1].issues[k + 1].severity)

\* the lists the change check of this run can add
ChangeLists ==
    IF check_changes
    THEN check_interface_changes(git_diff, changed_files, worktree, history)
    ELSE {<<>>}

\* the final lists a run can reach from a discovered component list
RunLists(discovered) ==
    UNION {{validate_interface_compatibility(analysed, ord) \o changes :
                ord \in NeighbourOrders(DependencyGraph(analysed)),
                changes \in ChangeLists} :
           analysed \in AnalyzeAll(discovered, project_files)}

\* C13: a second run of the whole pipeline on the same project tree and the
\* same revision pair gives the same issue list, in the same order, for every
\* order in which the sets inside the pipeline are iterated.
C13_RunsGiveSameList ==
    mpc = "exited" =>
        \A discovered \in discover_components(project_files) :
            \A other \in RunLists(discovered) : other = report[1].issues

\* the component lists that differ from discovered only in the order of the
\* file_paths of each component
Shuffled(discovered) ==
    {[i \in Indices(discovered) |-> [discovered[i] EXCEPT !.file_paths = order[i]]] :
        order \in {o \in [Indices(discovered) ->
                            UNION {Enumerations(Range(discovered[i].file_paths)) :
                                     i \in Indices(discovered)}] :
                      \A i \in Indices(discovered) :
                          Range(o[i]) = Range(discovered[i].file_paths)}}

\* C14: whatever the order in which the owned files of the components are
\* collected and read, the final issue list is the same list.
C14_ExtractionOrderIrrelevant ==
    mpc = "exited" =>
        \A discovered \in discover_components(project_files) :
            \A shuffled \in Shuffled(discovered) :
                \A other \in RunLists(shuffled) : other = report[1].issues

\* C29: a header that git diff lists as changed but that is gone from the
\* working tree gets no issue, although the symbols it declared at the base
\* revision are all removed.
C29_DeletedHeaderNoIssue ==
    Checked =>
        \A path \in Range(changed_files) :
            ~ worktree[path].exists => IssuesAbout(path) = {}

\* a deleted header whose base revision declared symbols, next to a changed
\* header that does get an issue
C29_Witness ==
    /\ Checked
    /\ \E path, other \in Range(changed_files) :
          /\ ~ worktree[path].exists
          /\ history[path].show = "ok"
          /\ history[path].content # <<>>
          /\ IssuesAbout(path) = {}
          /\ IssuesAbout(other) # {}

(***************************************************************************)
(* Properties of the parser                                                 *)
(***************************************************************************)
\* no element of the list occurs twice
NoDuplicates(list) == \A i, j \in Indices(list) : list[i] = list[j] => i = j

\* C21: for a file that cannot be read parse_header_file returns the descriptor
\* with the name of the file and four empty lists, and it returns: the files
\* after it are still parsed, a readable one with all its declarations.
C21_UnreadableGivesEmptyDescriptor ==
    /\ Len(descriptors) < Len(artifacts) => ENABLED ParseNext
    /\ \A k \in Indices(descriptors) :
          /\ descriptors[k].name = Stem(FileName(artifacts[k].file_path))
          /\ descriptors[k].file_path = artifacts[k].file_path
          /\ ~ artifacts[k].readable =>
                /\ descriptors[k].functions = <<>>
                /\ descriptors[k].structures = <<>>
                /\ descriptors[k].constants = <<>>
                /\ descriptors[k].dependencies = <<>>
          /\ artifacts[k].readable =>
                Len(descriptors[k].functions) + Len(descriptors[k].structures)
                    + Len(descriptors[k].constants)
                  = Cardinality({i \in Indices(artifacts[k].content) :
                        artifacts[k].content[i].kind # "include"})

\* the first file could not be read, the second was parsed with its declarations
C21_Witness ==
    /\ Len(descriptors) = 2
    /\ ~ artifacts[1].readable
    /\ descriptors[1].functions = <<>>
    /\ artifacts[2].readable
    /\ descriptors[2].functions # <<>>
    /\ descriptors[2].dependencies # <<>>

\* C22: in a descriptor parse_header_file returns no name occurs twice among the
\* functions, among the structures, among the constants or among the
\* dependencies, also when the file declares or includes a name several times.
C22_DescriptorNamesUnique ==
    \A k \in Indices(descriptors) :
        /\ NoDuplicates(descriptors[k].functions)
        /\ NoDuplicates(descriptors[k].structures)
        /\ NoDuplicates(descriptors[k].constants)
        /\ NoDuplicates(descriptors[k].dependencies)

\* the owned headers of a component that carry a name
HeadersNamed(component, name) ==
    {k \in Indices(component.file_paths) :
        EndsWithH(component.file_paths[k]) /\ FileName(component.file_paths[k]) = name}

\* C23: each provided interface of an analysed component is the name of exactly
\* one header the component owns; two owned headers never share a provided
\* name.
C23_ProvidedNameOneArtifact ==
    Analyzed =>
        \A i \in Indices(components) :
            \A name \in Range(components[i].interfaces_provided) :
                Cardinality(HeadersNamed(components[i], name)) = 1

(***************************************************************************)
(* Further properties of the validator                                      *)
(***************************************************************************)
\* the dependency graph of the validated list has a directed cycle
GraphHasCycle == \E n \in DOMAIN dependency_graph : OnCycle(n, dependency_graph)

IssueKinds(list) == {list[k].message.kind : k \in Indices(list)}

\* every element of the list is a DependencyIssue of one of the three kinds of
\* finding of the validator
ListOfFindings(list) ==
    \A k \in Indices(list) :
        /\ DOMAIN list[k] = {"severity", "component", "interface", "message", "file_path"}
        /\ list[k].severity \in {"error", "warning"}
        /\ list[k].message.kind \in {"not_provided", "circular", "multiple_providers"}

C27_CycleIssueIffCycle ==
    Validated => (CircularIssues(issues) # {} <=> GraphHasCycle)

\* a cycle that the first listed component is not part of
C27_Witness ==
    /\ Validated
    /\ Len(components) = 3
    /\ ~ OnCycle(components[1].name, dependency_graph)
    /\ dependency_graph[components[1].name] # {}
    /\ GraphHasCycle
    /\ CircularIssues(issues) # {}

\* C28: every issue of the validator and of the change check has severity
\* error or warning, and in every report the error count plus the warning count
\* is the total issue count.
C28_ErrorsPlusWarningsIsTotal ==
    /\ \A k \in 1..Len(issues) : issues[k].severity \in {"error", "warning"}
    /\ \A k \in 1..Len(change_issues) : change_issues[k].severity \in {"error", "warning"}
    /\ report # <<>> =>
          /\ report[1].errors + report[1].warnings = report[1].total_issues
          /\ \A k \in 1..Len(report[1].issues) :
                report[1].issues[k].severity \in {"error", "warning"}

\* a report that counts an error of the change check, an error of the validator
\* and a warning of the validator
C28_Witness ==
    /\ report # <<>>
    /\ report[1].warnings > 0
    /\ \E k \in 1..Len(report[1].issues) :
          /\ report[1].issues[k].severity = "error"
          /\ report[1].issues[k].file_path # NoFilePath
    /\ \E k \in 1..Len(report[1].issues) :
          /\ report[1].issues[k].severity = "error"
          /\ report[1].issues[k].file_path = NoFilePath

(***************************************************************************)
(* Properties of the AlertManager                                           *)
(***************************************************************************)
\* the cooldown of an alert in ticks of the clock
CooldownTicks(alert) == alert.cooldown_minutes * TicksPerMinute

\* the step leaves the alert at position i alone: no notification for it, its
\* last_alert_time kept, and it is not newly entered in active_alerts
AlertUntouched(i) ==
    /\ alerts'[i].last_alert_time = alerts[i].last_alert_time
    /\ notifications'[i] = notifications[i]
    /\ \A m \in DOMAIN active_alerts' :
          active_alerts'[m] = i => m \in DOMAIN active_alerts /\ active_alerts[m] = i

ListsFor(comps) ==
    {validate_interface_compatibility(comps, ord) :
        ord \in NeighbourOrders(DependencyGraph(comps))}

\* C26: whatever calls came before on the same validator, the list the latest
\* call returned holds the issues of that call's component list and nothing
\* else: no issue of an earlier call, none a caller appended to an earlier list.
C26_LatestListOnlyOfLatestCall ==
    vpc \in {"validated", "revalidated"} =>
       /\ issues \in ListsFor(components)
       /\ \A k \in 1..Len(issues) : issues[k] # AppendedIssue

\* a later call has returned; the list of the call before, which the caller
\* extended, holds a validator issue and the appended one, and neither is in
\* the non-empty list just returned
C26_Witness ==
    /\ vpc = "revalidated"
    /\ issues # <<>>
    /\ \E k \in 1..Len(returned_before) : returned_before[k] = AppendedIssue
    /\ \E k \in 1..Len(returned_before) :
          /\ returned_before[k] # AppendedIssue
          /\ \A j \in 1..Len(issues) : issues[j] # returned_before[k]
====
